---- MODULE Spec2Model ----
(***************************************************************************)
(* Terminal session orchestrator of StratusShell: the TerminalManager      *)
(* (internal/server/terminal.go), its PortPool (internal/server/           *)
(* portpool.go), the GoTTY backend wrapper (internal/server/               *)
(* gotty_wrapper.go) and the active_terminals / active_layout tables       *)
(* (internal/db/terminals.go).                                             *)
(*                                                                         *)
(* Callers are goroutines (HTTP handlers).  Every critical section of      *)
(* tm.mu / PortPool.mu is one action; code between two critical sections   *)
(* that touches no shared state is folded into the next action.  The       *)
(* operating system and the backend goroutines are the environment:        *)
(* net.Listen("localhost:0") may hand out any port without a listener,     *)
(* and a backend binds, fails to bind or exits on its own schedule.        *)
(* Failures of the environment (listen, entropy, backend construction,     *)
(* database, foreign bind, backend death) are injected up to MaxFaults     *)
(* per run.                                                                *)
(***************************************************************************)
EXTENDS Integers, FiniteSets, Sequences, TLC

\* ---- bounds of the model ----
NumCallers == 2      \* concurrent callers
MaxPort == 2         \* ephemeral ports the OS chooses from: 1..MaxPort
MaxID == 3           \* IDs handed out to one caller after another
MaxConcID == 2       \* IDs handed out to concurrent callers
MaxFaults == 1       \* injected environment failures per run
NearFull == 9        \* sessions already live in the near-capacity runs
MaxNew == 2          \* IDs handed out in a near-capacity run
MaxLayoutID == 4     \* IDs handed out in the layout runs
MaxLayoutN == 5      \* sessions live at most when a layout run starts
MaxRaceN == 3        \* sessions live when a layout run races with kills
MaxSaved == 2        \* terminals of a saved session: 1..MaxSaved
MaxStale == 2        \* session records left in the store by the last process
MaxStoredCount == 1  \* terminal_count stored in active_layout: 0..MaxStoredCount
MaxRestorePort == 4  \* ephemeral ports the OS chooses from at startup

\* ---- program constants ----
maxTerminals == 10   \* terminal.go:44

Callers == 1..NumCallers
Ports == 1..MaxPort
LayoutTypes == {"horizontal", "grid"}

VARIABLES
    terminals,    \* tm.terminals: ID -> [Port, DBID, Srv, Title]
    nextID,       \* tm.nextID
    activeTabID,  \* tm.activeTabID
    used,         \* PortPool.used (the ports mapped to true)
    servers,      \* GoTTYServer objects in creation order: [port, st, cancelled]
    bound,        \* ports that have a listener (OS state)
    dbRows,       \* ids of the rows of active_terminals
    dbSeq,        \* AUTOINCREMENT sequence of active_terminals
    dbLayout,     \* the row of active_layout
    th,           \* per caller: program counter and locals
    pre,          \* shared state at the start of a call that runs alone
    faults        \* environment failures injected so far

vars == <<terminals, nextID, activeTabID, used, servers, bound,
          dbRows, dbSeq, dbLayout, th, pre, faults>>

mgr == <<terminals, nextID, activeTabID>>
db == <<dbRows, dbSeq, dbLayout>>

NoSnap == [owner |-> 0]

\* a backend whose srv.Run has returned after serving, or without running
Exited == [port |-> 0, st |-> "exited", cancelled |-> FALSE]

\* a backend whose srv.Run has returned because it could not bind its port
BindFailed == [port |-> 0, st |-> "bind_failed", cancelled |-> FALSE]

\* the title "Terminal n" that the handlers and ApplyLayout give a session
\* (handlers.go:56, terminal.go:225)
TerminalTitle(n) == [name |-> "Terminal", n |-> n]

\* a title a client sends with a rename request
RenameTitles == {[name |-> "Work", n |-> 0]}

\* the title of the n-th terminal of a saved session
SavedTitle(n) == [name |-> "Saved", n |-> n]

NoTitle == [name |-> "", n |-> 0]

IdleRec == [pc |-> "idle", outer |-> "none", ret |-> "none",
            id |-> 0, port |-> 0, srv |-> 0, dbid |-> 0, dbfail |-> FALSE,
            title |-> NoTitle, old |-> {}, fresh |-> {},
            layout |-> "none", target |-> 0, i |-> 0, todo |-> {},
            nestedErr |-> "none"]

Live == DOMAIN terminals

\* len(tm.terminals)
NumLive == Cardinality(Live)

\* terminal.go:251-262
getTerminalCountForLayout(layoutType) ==
    CASE layoutType = "horizontal" -> 2
      [] layoutType = "vertical" -> 2
      [] layoutType = "grid" -> 4
      [] OTHER -> 2

\* State after n failure-free sequential SpawnTerminal calls on a fresh
\* manager, the OS handing out ports base+1 .. base+n and every backend
\* listening.  InitWith(0, 0) is the state after NewTerminalManager and
\* the creation of the database.
InitWith(n, base) ==
    /\ terminals = [k \in 1..n |-> [Port |-> base + k, DBID |-> k, Srv |-> k,
                                     Title |-> TerminalTitle(k)]]
    /\ nextID = n + 1
    /\ activeTabID = IF n = 0 THEN 0 ELSE 1
    /\ used = {base + k : k \in 1..n}
    /\ servers = [k \in 1..n |-> [port |-> base + k, st |-> "listening", cancelled |-> FALSE]]
    /\ bound = {base + k : k \in 1..n}
    /\ dbRows = 1..n
    /\ dbSeq = n
    /\ dbLayout = [type |-> "horizontal", count |-> 2]
    /\ th = [t \in Callers |-> IdleRec]
    /\ pre = NoSnap
    /\ faults = 0

Init == InitWith(0, 0)

\* ---- caller bookkeeping ----

Snapshot(t) ==
    [owner |-> t, terminals |-> terminals, nextID |-> nextID,
     activeTabID |-> activeTabID, used |-> used, dbRows |-> dbRows,
     dbLayout |-> dbLayout]

\* A handler calls into the manager (pc "idle"): the snapshot is kept only
\* when no other caller is inside an operation.  A nested call keeps pre.
PreAtCall(t) ==
    IF th[t].pc # "idle" THEN pre
    ELSE IF \A u \in Callers \ {t} : th[u].pc = "idle" THEN Snapshot(t) ELSE NoSnap

\* the caller's locals when an operation starts at pc "idle" or in a loop
Locals(t) == IF th[t].pc = "idle" THEN IdleRec ELSE th[t]

Fault == faults < MaxFaults

\* A handler that has its result returns before anything else is scheduled:
\* the return touches no shared state, so its place in the order of the
\* other steps makes no difference to them.
NoneDone == \A t \in Callers : th[t].pc # "done"

Goto(t, r) == th' = [th EXCEPT ![t] = r]

\* The handler gets the result res of its call
Done(r, res) == [r EXCEPT !.pc = "done", !.outer = "none", !.ret = res]

\* a load that returns at a failed spawn and leaves what it spawned
AfterLoadSpawnNoRollback(r, res) ==
    IF res # "spawned"
    THEN Done([r EXCEPT !.nestedErr = "spawn"], "load_spawn_failed")
    ELSE LET q == [r EXCEPT !.fresh = @ \cup {r.id}, !.i = r.i + 1] IN
         IF q.i < q.target THEN [q EXCEPT !.pc = "load_spawn"]
         ELSE IF q.old = {} THEN [q EXCEPT !.pc = "load_db", !.outer = "none"]
         ELSE [q EXCEPT !.pc = "load_kill", !.outer = "load_kill", !.todo = q.old]

\* handleLoadSession after a SpawnTerminal call of its loop (part_012:259-284):
\* a failure starts the rollback of the sessions spawned so far, the last
\* success starts the kills of the old sessions
AfterLoadSpawn(r, res) ==
    IF res # "spawned"
    THEN IF r.fresh = {}
         THEN Done([r EXCEPT !.nestedErr = "spawn"], "load_spawn_failed")
         ELSE [r EXCEPT !.nestedErr = "spawn", !.pc = "load_rollback",
                        !.outer = "load_rollback", !.todo = r.fresh]
    ELSE LET q == [r EXCEPT !.fresh = @ \cup {r.id}, !.i = r.i + 1] IN
         IF q.i < q.target THEN [q EXCEPT !.pc = "load_spawn"]
         ELSE IF q.old = {} THEN [q EXCEPT !.pc = "load_db", !.outer = "none"]
         ELSE [q EXCEPT !.pc = "load_kill", !.outer = "load_kill", !.todo = q.old]

\* an ApplyLayout loop that goes on to UpdateActiveLayout when a spawn fails
ReturnSpawnPersistsAfterFailure(t, r, res) ==
    IF r.outer = "none" THEN Goto(t, Done(r, res))
    ELSE IF r.outer = "load_spawn" THEN Goto(t, AfterLoadSpawn(r, res))
    ELSE IF res # "spawned"
         THEN Goto(t, [r EXCEPT !.nestedErr = "spawn", !.pc = "layout_db"])
    ELSE IF r.i + 1 < r.target
         THEN Goto(t, [r EXCEPT !.pc = "layout_spawn", !.i = r.i + 1])
         ELSE Goto(t, [r EXCEPT !.pc = "layout_db", !.i = r.i + 1])

\* SpawnTerminal returns res to its caller: the handler, the loop of
\* ApplyLayout (terminal.go:223-232) or the loop of handleLoadSession
ReturnSpawn(t, r, res) ==
    IF r.outer = "none" THEN Goto(t, Done(r, res))
    ELSE IF r.outer = "load_spawn" THEN Goto(t, AfterLoadSpawn(r, res))
    ELSE IF res # "spawned"
         THEN Goto(t, Done([r EXCEPT !.nestedErr = "spawn"], "layout_spawn_failed"))
    ELSE IF r.i + 1 < r.target
         THEN Goto(t, [r EXCEPT !.pc = "layout_spawn", !.i = r.i + 1])
         ELSE Goto(t, [r EXCEPT !.pc = "layout_db", !.i = r.i + 1])

\* KillTerminal returns res to its caller: the handler, the loop of
\* ApplyLayout (terminal.go:236-240) or the loop of Shutdown
\* (terminal.go:208-214); both loops only log an error
ReturnKill(t, r, res) ==
    IF r.outer = "none" THEN Goto(t, Done(r, res))
    ELSE LET logged == IF res = "not_found" THEN [r EXCEPT !.nestedErr = "kill"] ELSE r
         IN  IF r.todo # {} THEN Goto(t, [logged EXCEPT !.pc = r.outer])
             ELSE IF r.outer = "layout_kill" THEN Goto(t, [logged EXCEPT !.pc = "layout_db"])
             ELSE IF r.outer = "load_kill"
                  THEN Goto(t, [logged EXCEPT !.pc = "load_db", !.outer = "none"])
             ELSE IF r.outer = "load_rollback" THEN Goto(t, Done(logged, "load_spawn_failed"))
             ELSE Goto(t, Done(logged, "shutdown_ok"))

\* the handler has its result and is ready for the next request
Ack(t) ==
    /\ th[t].pc = "done"
    /\ Goto(t, IdleRec)
    /\ pre' = NoSnap
    /\ UNCHANGED <<mgr, used, servers, bound, db, faults>>

\* callers that passed the capacity check and have not been given an ID yet
InFlight == {u \in Callers : th[u].pc \in {"spawn_probe", "spawn_mark", "spawn_start", "spawn_id"}}

\* ---- PortPool, portpool.go ----

\* Release that forgets to delete the port
ReleaseKeeps(S, port) == S

\* a Release that empties the map
ReleaseClears(S, port) == {}

\* portpool.go:52-56
Release(S, port) == S \ {port}

\* portpool.go:39-44
MarkUsed(S, port) == S \cup {port}

\* a caller of the pool alone calls Allocate (portpool.go:48-50)
PoolAllocate(t) ==
    /\ th[t].pc = "idle"
    /\ Goto(t, [IdleRec EXCEPT !.pc = "pool_probe"])
    /\ pre' = PreAtCall(t)
    /\ UNCHANGED <<mgr, used, servers, bound, db, faults>>

\* portpool.go:23-37: listen on port 0, read the port, close the listener.
\* The OS refuses when it has no port left or for a reason of its own;
\* otherwise it hands out any port that has no listener.
Probe(t, ports, next) ==
    /\ \/ /\ Fault \/ ports \subseteq bound
          /\ faults' = IF ports \subseteq bound THEN faults ELSE faults + 1
          /\ ReturnSpawn(t, th[t], "alloc_failed")
       \/ /\ \E p \in ports \ bound : Goto(t, [th[t] EXCEPT !.port = p, !.pc = next])
          /\ UNCHANGED faults
    /\ UNCHANGED <<mgr, used, servers, bound, db, pre>>

\* Allocate called on the pool alone: the probe
PoolProbe(t) ==
    /\ th[t].pc = "pool_probe"
    /\ Probe(t, Ports, "pool_mark")

\* portpool.go:39-44: mark the port as used, under PortPool.mu, and return it
PoolMark(t) ==
    /\ th[t].pc = "pool_mark"
    /\ used' = MarkUsed(used, th[t].port)
    /\ Goto(t, Done(th[t], "allocated"))
    /\ UNCHANGED <<mgr, servers, bound, db, pre, faults>>

\* a caller of the pool alone calls Release(port)
PoolRelease(t, port) ==
    /\ th[t].pc = "idle"
    /\ used' = Release(used, port)
    /\ Goto(t, Done([IdleRec EXCEPT !.port = port], "released"))
    /\ pre' = PreAtCall(t)
    /\ UNCHANGED <<mgr, servers, bound, db, faults>>

\* portpool.go:58-62
IsAllocated(t, port) ==
    /\ th[t].pc = "idle"
    /\ Goto(t, Done([IdleRec EXCEPT !.port = port], IF port \in used THEN "true" ELSE "false"))
    /\ pre' = PreAtCall(t)
    /\ UNCHANGED <<mgr, used, servers, bound, db, faults>>

\* ---- SpawnTerminal, terminal.go:61-123 ----

\* the capacity check written with > instead of >=
AtCapacityOffByOne(n) == n > maxTerminals

\* a capacity limit below the target of the grid layout
AtCapacityBelowGrid(n) == n >= 3

\* terminal.go:64: n is len(tm.terminals)
AtCapacity(n) == n >= maxTerminals

\* terminal.go:62-68: the capacity check, under tm.mu
SpawnTerminal(t, idCap) ==
    /\ NoneDone
    /\ th[t].pc \in {"idle", "layout_spawn", "load_spawn"}
    /\ pre' = PreAtCall(t)
    /\ IF AtCapacity(NumLive)
       THEN ReturnSpawn(t, Locals(t), "max_terminals")
       ELSE /\ nextID + Cardinality(InFlight) <= idCap
            /\ Goto(t, [Locals(t) EXCEPT !.pc = "spawn_probe",
                                         !.title = IF th[t].pc = "layout_spawn"
                                                   THEN TerminalTitle(th[t].i + 1)
                                                   ELSE IF th[t].pc = "load_spawn"
                                                   THEN SavedTitle(th[t].i + 1)
                                                   ELSE TerminalTitle(NumLive + 1)])
    /\ UNCHANGED <<mgr, used, servers, bound, db, faults>>

\* terminal.go:70-73, in portPool.Allocate: the probe
AllocateProbe(t, ports) ==
    /\ NoneDone
    /\ th[t].pc = "spawn_probe"
    /\ Probe(t, ports, "spawn_mark")

\* terminal.go:70, in portPool.Allocate: the port is marked as used
AllocateMark(t) ==
    /\ NoneDone
    /\ th[t].pc = "spawn_mark"
    /\ used' = MarkUsed(used, th[t].port)
    /\ Goto(t, [th[t] EXCEPT !.pc = "spawn_start"])
    /\ UNCHANGED <<mgr, servers, bound, db, pre, faults>>

\* a spawn that takes a number from the counter even when its backend does
\* not start
SpawnStartCountsFailure(t) ==
    /\ NoneDone
    /\ th[t].pc = "spawn_start"
    /\ \/ /\ Fault
          /\ faults' = faults + 1
          /\ \E res \in {"cred_failed", "start_failed"} : ReturnSpawn(t, th[t], res)
          /\ used' = Release(used, th[t].port)
          /\ nextID' = nextID + 1
          /\ UNCHANGED <<servers, terminals, activeTabID>>
       \/ /\ servers' = Append(servers, [port |-> th[t].port, st |-> "starting", cancelled |-> FALSE])
          /\ Goto(t, [th[t] EXCEPT !.pc = "spawn_id", !.srv = Len(servers) + 1])
          /\ UNCHANGED <<used, faults, mgr>>
    /\ UNCHANGED <<bound, db, pre>>

\* terminal.go:76-88 and gotty_wrapper.go:21-81: generateCredential, then
\* NewGoTTYServer, which returns once the goroutine that runs srv.Run is
\* started; the listener is bound later, by that goroutine.
SpawnStart(t) ==
    /\ NoneDone
    /\ th[t].pc = "spawn_start"
    /\ \/ /\ Fault
          /\ faults' = faults + 1
          /\ \E res \in {"cred_failed", "start_failed"} : ReturnSpawn(t, th[t], res)
          /\ used' = Release(used, th[t].port)
          /\ UNCHANGED servers
       \/ /\ servers' = Append(servers, [port |-> th[t].port, st |-> "starting", cancelled |-> FALSE])
          /\ Goto(t, [th[t] EXCEPT !.pc = "spawn_id", !.srv = Len(servers) + 1])
          /\ UNCHANGED <<used, faults>>
    /\ UNCHANGED <<mgr, bound, db, pre>>

\* an ID taken from the size of the live map instead of the counter
SpawnAssignIDFromCount(t) ==
    /\ NoneDone
    /\ th[t].pc = "spawn_id"
    /\ nextID' = nextID + 1
    /\ Goto(t, [th[t] EXCEPT !.pc = "spawn_save", !.id = NumLive + 1])
    /\ UNCHANGED <<terminals, activeTabID, used, servers, bound, db, pre, faults>>

\* terminal.go:90-93
SpawnAssignID(t) ==
    /\ NoneDone
    /\ th[t].pc = "spawn_id"
    /\ nextID' = nextID + 1
    /\ Goto(t, [th[t] EXCEPT !.pc = "spawn_save", !.id = nextID])
    /\ UNCHANGED <<terminals, activeTabID, used, servers, bound, db, pre, faults>>

\* a save whose failure leaves the new terminal with the key of the last row
SpawnSaveFailureSetsKey(t) ==
    /\ NoneDone
    /\ th[t].pc = "spawn_save"
    /\ \/ /\ dbSeq' = dbSeq + 1
          /\ dbRows' = dbRows \cup {dbSeq + 1}
          /\ Goto(t, [th[t] EXCEPT !.pc = "spawn_reg", !.dbid = dbSeq + 1])
          /\ UNCHANGED faults
       \/ /\ Fault
          /\ faults' = faults + 1
          /\ Goto(t, [th[t] EXCEPT !.pc = "spawn_reg", !.dbid = dbSeq, !.dbfail = TRUE])
          /\ UNCHANGED <<dbRows, dbSeq>>
    /\ UNCHANGED <<mgr, used, servers, bound, dbLayout, pre>>

\* terminal.go:106-112 and db/terminals.go:21-30
SpawnSave(t) ==
    /\ NoneDone
    /\ th[t].pc = "spawn_save"
    /\ \/ /\ dbSeq' = dbSeq + 1
          /\ dbRows' = dbRows \cup {dbSeq + 1}
          /\ Goto(t, [th[t] EXCEPT !.pc = "spawn_reg", !.dbid = dbSeq + 1])
          /\ UNCHANGED faults
       \/ /\ Fault
          /\ faults' = faults + 1
          /\ Goto(t, [th[t] EXCEPT !.pc = "spawn_reg", !.dbid = 0, !.dbfail = TRUE])
          /\ UNCHANGED <<dbRows, dbSeq>>
    /\ UNCHANGED <<mgr, used, servers, bound, dbLayout, pre>>

\* a register that makes only the first live session the active tab
ActiveAfterRegisterFirstOnly(active, id, n) == IF n = 1 THEN id ELSE active

\* terminal.go:116-119: n is len(tm.terminals) after the insert
ActiveAfterRegister(active, id, n) == IF active = 0 \/ n = 1 THEN id ELSE active

\* terminal.go:114-122
SpawnRegister(t) ==
    /\ NoneDone
    /\ th[t].pc = "spawn_reg"
    /\ terminals' = (th[t].id :> [Port |-> th[t].port, DBID |-> th[t].dbid, Srv |-> th[t].srv,
                                  Title |-> th[t].title]) @@ terminals
    /\ activeTabID' = ActiveAfterRegister(activeTabID, th[t].id, Cardinality(DOMAIN terminals'))
    /\ ReturnSpawn(t, th[t], "spawned")
    /\ UNCHANGED <<nextID, used, servers, bound, db, pre, faults>>

\* ---- KillTerminal, terminal.go:125-161 ----

\* KillTerminal that switches the active tab whichever session it kills
ActiveAfterKillAlwaysSwitches(active, id, rest) == IF rest = {} THEN {0} ELSE rest

\* KillTerminal without the switch of the active tab
ActiveAfterKillStale(active, id, rest) == {active}

\* terminal.go:134-142: the values activeTabID can take once id is deleted;
\* rest is the live set after the delete (map iteration order is arbitrary)
ActiveAfterKill(active, id, rest) ==
    IF active = id
    THEN IF rest = {} THEN {0} ELSE rest
    ELSE {active}

\* a not-found branch that resets the active tab before it returns
KillMissClearsTab(t, r) ==
    /\ ReturnKill(t, r, "not_found")
    /\ activeTabID' = 0
    /\ UNCHANGED <<terminals, nextID>>

\* terminal.go:128-131: the id is not in tm.terminals
KillMiss(t, r) ==
    /\ ReturnKill(t, r, "not_found")
    /\ UNCHANGED mgr

\* a KillTerminal that leaves the session in the map when it finds it
KillTerminalKeepsEntry(t, id) ==
    /\ NoneDone
    /\ \/ th[t].pc = "idle"
       \/ th[t].pc \in {"layout_kill", "shutdown_loop", "load_rollback", "load_kill"} /\ id \in th[t].todo
    /\ pre' = PreAtCall(t)
    /\ LET r == [Locals(t) EXCEPT !.id = id, !.todo = @ \ {id}] IN
       IF id \notin Live
       THEN KillMiss(t, r)
       ELSE /\ Goto(t, [r EXCEPT !.pc = "kill_stop", !.port = terminals[id].Port,
                                 !.dbid = terminals[id].DBID, !.srv = terminals[id].Srv])
            /\ UNCHANGED mgr
    /\ UNCHANGED <<used, servers, bound, db, faults>>

\* terminal.go:126-143: lookup, delete and active-tab switch, under tm.mu.
\* The id comes from the handler, or from the list a loop iterates over.
KillTerminal(t, id) ==
    /\ NoneDone
    /\ \/ th[t].pc = "idle"
       \/ th[t].pc \in {"layout_kill", "shutdown_loop", "load_rollback", "load_kill"} /\ id \in th[t].todo
    /\ pre' = PreAtCall(t)
    /\ LET r == [Locals(t) EXCEPT !.id = id, !.todo = @ \ {id}] IN
       IF id \notin Live
       THEN KillMiss(t, r)
       ELSE /\ terminals' = [k \in Live \ {id} |-> terminals[k]]
            /\ activeTabID' \in ActiveAfterKill(activeTabID, id, Live \ {id})
            /\ Goto(t, [r EXCEPT !.pc = "kill_stop", !.port = terminals[id].Port,
                                 !.dbid = terminals[id].DBID, !.srv = terminals[id].Srv])
            /\ UNCHANGED nextID
    /\ UNCHANGED <<used, servers, bound, db, faults>>

\* gotty_wrapper.go:84-91: Stop cancels the server context and waits on
\* that same context, which is done as soon as it is cancelled
Stop(server) ==
    IF server.st \in {"exited", "bind_failed"} THEN server ELSE [server EXCEPT !.cancelled = TRUE]

\* a Stop that waits for srv.Run to have returned
KillStopWaits(t) ==
    /\ NoneDone
    /\ th[t].pc = "kill_stop"
    /\ servers[th[t].srv].st \in {"exited", "bind_failed"}
    /\ servers' = [servers EXCEPT ![th[t].srv] = Stop(servers[th[t].srv])]
    /\ Goto(t, [th[t] EXCEPT !.pc = "kill_release"])
    /\ UNCHANGED <<mgr, used, bound, db, pre, faults>>

\* terminal.go:146-148
KillStop(t) ==
    /\ NoneDone
    /\ th[t].pc = "kill_stop"
    /\ servers' = [servers EXCEPT ![th[t].srv] = Stop(servers[th[t].srv])]
    /\ Goto(t, [th[t] EXCEPT !.pc = "kill_release"])
    /\ UNCHANGED <<mgr, used, bound, db, pre, faults>>

\* terminal.go:151-154: release the port; a terminal without DBID is done
KillRelease(t) ==
    /\ NoneDone
    /\ th[t].pc = "kill_release"
    /\ used' = Release(used, th[t].port)
    /\ IF th[t].dbid > 0
       THEN Goto(t, [th[t] EXCEPT !.pc = "kill_dbdel"])
       ELSE ReturnKill(t, th[t], "killed")
    /\ UNCHANGED <<mgr, servers, bound, db, pre, faults>>

\* a kill that reports the delete as done and leaves the record
KillDbDeleteSkips(t) ==
    /\ NoneDone
    /\ th[t].pc = "kill_dbdel"
    /\ ReturnKill(t, [th[t] EXCEPT !.dbfail = FALSE], "killed")
    /\ UNCHANGED <<mgr, used, servers, bound, db, pre, faults>>

\* terminal.go:155-160 and db/terminals.go:58-61
KillDbDelete(t) ==
    /\ NoneDone
    /\ th[t].pc = "kill_dbdel"
    /\ \/ /\ dbRows' = dbRows \ {th[t].dbid}
          /\ ReturnKill(t, [th[t] EXCEPT !.dbfail = FALSE], "killed")
          /\ UNCHANGED faults
       \/ /\ Fault
          /\ faults' = faults + 1
          /\ UNCHANGED dbRows
          /\ ReturnKill(t, [th[t] EXCEPT !.dbfail = TRUE], "killed")
    /\ UNCHANGED <<mgr, used, servers, bound, dbSeq, dbLayout, pre>>

\* ---- SetActiveTabID, terminal.go:187-191 ----
SetActiveTabID(t, id) ==
    /\ NoneDone
    /\ th[t].pc = "idle"
    /\ activeTabID' = id
    /\ Goto(t, Done([IdleRec EXCEPT !.id = id], "tab_set"))
    /\ pre' = PreAtCall(t)
    /\ UNCHANGED <<terminals, nextID, used, servers, bound, db, faults>>

\* ---- Shutdown, terminal.go:199-215 ----

\* a snapshot loop that misses the terminal with the greatest ID
ShutdownTargetsMissOne(live) ==
    live \ {k \in live : \A j \in live : j <= k}

\* terminal.go:201-204: the terminals Shutdown copies out of tm.terminals
ShutdownTargets(live) == live

\* terminal.go:200-205: the snapshot, under tm.mu
Shutdown(t) ==
    /\ NoneDone
    /\ th[t].pc = "idle"
    /\ pre' = PreAtCall(t)
    /\ ReturnKill(t, [IdleRec EXCEPT !.outer = "shutdown_loop", !.todo = ShutdownTargets(Live)], "none")
    /\ UNCHANGED <<mgr, used, servers, bound, db, faults>>

\* ---- ApplyLayout, terminal.go:217-249 ----

\* terminal.go:218-223: targetCount and currentCount (len(tm.terminals) is
\* read without tm.mu; the read yields the length at some instant)
ApplyLayoutEntry(t, layoutType) ==
    LET targetCount == getTerminalCountForLayout(layoutType)
        currentCount == NumLive
        r == [IdleRec EXCEPT !.layout = layoutType, !.target = targetCount, !.i = currentCount]
    IN  IF targetCount > currentCount
        THEN Goto(t, [r EXCEPT !.pc = "layout_spawn", !.outer = "layout_spawn"])
        ELSE IF targetCount < currentCount
             THEN Goto(t, [r EXCEPT !.pc = "layout_snap", !.outer = "layout_kill"])
             ELSE Goto(t, [r EXCEPT !.pc = "layout_db"])

ApplyLayout(t, layoutType) ==
    /\ NoneDone
    /\ th[t].pc = "idle"
    /\ pre' = PreAtCall(t)
    /\ ApplyLayoutEntry(t, layoutType)
    /\ UNCHANGED <<mgr, used, servers, bound, db, faults>>

\* a kill loop that starts one index too late
ExcessSetsOffByOne(live, targetCount) ==
    {S \in SUBSET live : Cardinality(S) = IF Cardinality(live) > targetCount + 1
                                          THEN Cardinality(live) - targetCount - 1 ELSE 0}

\* terminal.go:235-236: GetTerminals returns the live terminals in arbitrary
\* order; the loop kills those at index targetCount and above
ExcessSets(live, targetCount) ==
    {S \in SUBSET live : Cardinality(S) = IF Cardinality(live) > targetCount
                                          THEN Cardinality(live) - targetCount ELSE 0}

LayoutSnapshot(t) ==
    /\ NoneDone
    /\ th[t].pc = "layout_snap"
    /\ \E S \in ExcessSets(Live, th[t].target) : ReturnKill(t, [th[t] EXCEPT !.todo = S], "none")
    /\ UNCHANGED <<mgr, used, servers, bound, db, pre, faults>>

\* terminal.go:243-248 and db/terminals.go:79-85
LayoutPersist(t) ==
    /\ NoneDone
    /\ th[t].pc = "layout_db"
    /\ \/ /\ dbLayout' = [type |-> th[t].layout, count |-> th[t].target]
          /\ Goto(t, Done(th[t], "layout_ok"))
          /\ UNCHANGED faults
       \/ /\ Fault
          /\ faults' = faults + 1
          /\ UNCHANGED dbLayout
          /\ Goto(t, Done(th[t], "layout_db_failed"))
    /\ UNCHANGED <<mgr, used, servers, bound, dbRows, dbSeq, pre>>

\* ---- load of a saved session, part_012:229-296 ----

\* part_012:284-291: the stored layout type of the session, or else
\* horizontal for up to two terminals and grid for more
LoadLayoutType(stored, n) ==
    IF stored # "" THEN stored ELSE IF n > 2 THEN "grid" ELSE "horizontal"

\* part_012:248-257: GetSessionTerminals, whose failure ends the request,
\* and GetTerminals; n is the number of terminals of the saved session and
\* stored its layout type
LoadSession(t, n, stored) ==
    /\ NoneDone
    /\ th[t].pc = "idle"
    /\ pre' = PreAtCall(t)
    /\ \/ /\ LET r == [IdleRec EXCEPT !.target = n, !.layout = stored, !.old = Live] IN
             IF n > 0 THEN Goto(t, [r EXCEPT !.pc = "load_spawn", !.outer = "load_spawn"])
             ELSE IF Live = {} THEN Goto(t, [r EXCEPT !.pc = "load_db"])
             ELSE Goto(t, [r EXCEPT !.pc = "load_kill", !.outer = "load_kill", !.todo = Live])
          /\ UNCHANGED faults
       \/ /\ Fault
          /\ faults' = faults + 1
          /\ Goto(t, Done([IdleRec EXCEPT !.target = n, !.layout = stored], "load_db_failed"))
    /\ UNCHANGED <<mgr, used, servers, bound, db>>

\* part_012:284-295: UpdateActiveLayout, whose error is dropped
LoadPersist(t) ==
    /\ NoneDone
    /\ th[t].pc = "load_db"
    /\ \/ /\ dbLayout' = [type |-> LoadLayoutType(th[t].layout, th[t].target),
                          count |-> th[t].target]
          /\ UNCHANGED faults
       \/ /\ Fault
          /\ faults' = faults + 1
          /\ UNCHANGED dbLayout
    /\ Goto(t, Done(th[t], "load_ok"))
    /\ UNCHANGED <<mgr, used, servers, bound, dbRows, dbSeq, pre>>

\* ---- rename, handlers.go:91-120 ----

\* a rename that writes the title of every live session
WithTitleOfAll(ts, id, title) == [k \in DOMAIN ts |-> [ts[k] EXCEPT !.Title = title]]

\* handlers.go:110: terminal.Title = newTitle, on the Terminal that tm.terminals
\* points to under id; IDs are never reused, so the Terminal that
\* GetTerminal returned is in the map exactly when its ID is
WithTitle(ts, id, title) == IF id \in DOMAIN ts THEN [ts EXCEPT ![id].Title = title] ELSE ts

\* handlers.go:104-108: GetTerminal
RenameTerminal(t, id, title) ==
    /\ NoneDone
    /\ th[t].pc = "idle"
    /\ pre' = PreAtCall(t)
    /\ IF id \in Live
       THEN Goto(t, [IdleRec EXCEPT !.pc = "rename_write", !.id = id, !.title = title,
                                    !.dbid = terminals[id].DBID])
       ELSE Goto(t, Done([IdleRec EXCEPT !.id = id, !.title = title], "rename_not_found"))
    /\ UNCHANGED <<mgr, used, servers, bound, db, faults>>

\* handlers.go:110-119: the write of the title, and UpdateActiveTerminalTitle,
\* whose failure is only logged (the store's titles are not part of the state)
RenameWrite(t) ==
    /\ NoneDone
    /\ th[t].pc = "rename_write"
    /\ terminals' = WithTitle(terminals, th[t].id, th[t].title)
    /\ Goto(t, Done(th[t], "renamed"))
    /\ UNCHANGED <<nextID, activeTabID, used, servers, bound, db, pre, faults>>

\* ---- startup, server.go:112-116 and 157-171 ----

\* a DELETE that stops short of the last row
ClearKeepsLastRow(rows) == IF rows = {} THEN {} ELSE {CHOOSE r \in rows : \A q \in rows : q <= r}

\* db/terminals.go:63-66: DELETE FROM active_terminals
ClearActiveTerminals(rows) == {}

\* server.go:157-163: a failure to clear the stale records is only logged
RestoreTerminals(t) ==
    /\ NoneDone
    /\ th[t].pc = "idle"
    /\ pre' = PreAtCall(t)
    /\ \/ /\ dbRows' = ClearActiveTerminals(dbRows)
          /\ UNCHANGED faults
       \/ /\ Fault
          /\ faults' = faults + 1
          /\ UNCHANGED dbRows
    /\ Goto(t, [IdleRec EXCEPT !.pc = "restore_get"])
    /\ UNCHANGED <<mgr, used, servers, bound, dbSeq, dbLayout>>

\* server.go:165-170: GetActiveLayout, then ApplyLayout with the stored type
RestoreApply(t) ==
    /\ NoneDone
    /\ th[t].pc = "restore_get"
    /\ \/ /\ ApplyLayoutEntry(t, dbLayout.type)
          /\ UNCHANGED faults
       \/ /\ Fault
          /\ faults' = faults + 1
          /\ Goto(t, Done(th[t], "restore_failed"))
    /\ UNCHANGED <<mgr, used, servers, bound, db, pre>>

\* ---- the backend goroutine, gotty_wrapper.go:68-74 ----

\* srv.Run binds localhost:<port> and serves; it returns when the port
\* already has a listener, when another process holds the port, or when
\* its context was cancelled before it got to run
BackendRun(h) ==
    /\ NoneDone
    /\ servers[h].st = "starting"
    /\ \/ /\ servers[h].port \notin bound
          /\ ~servers[h].cancelled
          /\ bound' = bound \cup {servers[h].port}
          /\ servers' = [servers EXCEPT ![h].st = "listening"]
          /\ UNCHANGED faults
       \/ /\ servers[h].cancelled
          /\ servers' = [servers EXCEPT ![h] = Exited]
          /\ UNCHANGED <<bound, faults>>
       \/ /\ servers[h].port \in bound
          /\ ~servers[h].cancelled
          /\ servers' = [servers EXCEPT ![h] = BindFailed]
          /\ UNCHANGED <<bound, faults>>
       \/ /\ servers[h].port \notin bound
          /\ ~servers[h].cancelled
          /\ Fault
          /\ faults' = faults + 1
          /\ servers' = [servers EXCEPT ![h] = BindFailed]
          /\ UNCHANGED bound
    /\ UNCHANGED <<mgr, used, db, th, pre>>

\* a backend exit that also deletes the persisted records of its sessions
BackendExitDeletesRecord(h) ==
    /\ NoneDone
    /\ servers[h].st = "listening"
    /\ \/ /\ servers[h].cancelled
          /\ UNCHANGED faults
       \/ /\ ~servers[h].cancelled
          /\ Fault
          /\ faults' = faults + 1
    /\ servers' = [servers EXCEPT ![h] = Exited]
    /\ bound' = bound \ {servers[h].port}
    /\ dbRows' = dbRows \ {terminals[id].DBID : id \in {k \in Live : terminals[k].Srv = h}}
    /\ UNCHANGED <<mgr, used, dbSeq, dbLayout, th, pre>>

\* srv.Run returns and its listener is closed: the context was cancelled,
\* or the backend died
BackendExit(h) ==
    /\ NoneDone
    /\ servers[h].st = "listening"
    /\ \/ /\ servers[h].cancelled
          /\ UNCHANGED faults
       \/ /\ ~servers[h].cancelled
          /\ Fault
          /\ faults' = faults + 1
    /\ servers' = [servers EXCEPT ![h] = Exited]
    /\ bound' = bound \ {servers[h].port}
    /\ UNCHANGED <<mgr, used, db, th, pre>>

\* ---- specifications ----

\* one step of caller t inside the manager
Step(t, idCap, ports, killIds) ==
    \/ SpawnTerminal(t, idCap)
    \/ AllocateProbe(t, ports)
    \/ AllocateMark(t)
    \/ SpawnStart(t)
    \/ SpawnAssignID(t)
    \/ SpawnSave(t)
    \/ SpawnRegister(t)
    \/ \E id \in killIds : KillTerminal(t, id)
    \/ KillStop(t)
    \/ KillRelease(t)
    \/ KillDbDelete(t)

\* the operations built on SpawnTerminal and KillTerminal
Compound(t) ==
    \/ Shutdown(t)
    \/ \E l \in LayoutTypes : ApplyLayout(t, l)
    \/ LayoutSnapshot(t)
    \/ LayoutPersist(t)

Backend ==
    \/ \E h \in DOMAIN servers : BackendRun(h)
    \/ \E h \in DOMAIN servers : BackendExit(h)

\* concurrent handlers on a fresh manager
Next ==
    \/ \E t \in Callers : Step(t, MaxConcID, Ports, 1..MaxConcID) \/ Shutdown(t)
    \/ Backend
    \/ \E t \in Callers : Ack(t)

Spec == Init /\ [][Next]_vars

\* one caller at a time on a fresh manager
NextSeq ==
    \/ Step(1, MaxID, Ports, 1..MaxID)
    \/ Compound(1)
    \/ \E id \in 0..MaxID : SetActiveTabID(1, id)
    \/ Backend
    \/ Ack(1)

SpecSeq == Init /\ [][NextSeq]_vars

\* concurrent SpawnTerminal and KillTerminal calls on a manager that is one
\* session short of its capacity; the kills are of the newest sessions
InitFull == InitWith(NearFull, MaxPort)

NextFull ==
    \/ \E t \in Callers : Step(t, NearFull + MaxNew, Ports, (NearFull + 1)..(NearFull + MaxNew))
    \/ Backend
    \/ \E t \in Callers : Ack(t)

SpecFull == InitFull /\ [][NextFull]_vars

\* layout names a handler can pass: the three known ones and an unknown one
LayoutInputs == {"horizontal", "vertical", "grid", "tabs"}

\* One ApplyLayout call on a manager with 0 to MaxLayoutN sessions, up to
\* its return; SpawnTerminal and KillTerminal run as its loops only
InitLayout == \E n \in 0..MaxLayoutN : n <= maxTerminals /\ InitWith(n, MaxPort)

NextLayout ==
    \/ \E l \in LayoutInputs : ApplyLayout(1, l)
    \/ th[1].pc = "layout_spawn" /\ SpawnTerminal(1, MaxLayoutID)
    \/ AllocateProbe(1, Ports)
    \/ AllocateMark(1)
    \/ SpawnStart(1)
    \/ SpawnAssignID(1)
    \/ SpawnSave(1)
    \/ SpawnRegister(1)
    \/ LayoutSnapshot(1)
    \/ \E id \in 1..MaxLayoutN : th[1].pc = "layout_kill" /\ KillTerminal(1, id)
    \/ KillStop(1)
    \/ KillRelease(1)
    \/ KillDbDelete(1)
    \/ LayoutPersist(1)
    \/ Backend

SpecLayout == InitLayout /\ [][NextLayout]_vars

\* One ApplyLayout call of caller 1 on MaxRaceN sessions, while the other
\* callers kill sessions
InitRace == InitWith(MaxRaceN, MaxPort)

NextRace ==
    \/ \E l \in LayoutTypes : ApplyLayout(1, l)
    \/ th[1].pc = "layout_spawn" /\ SpawnTerminal(1, MaxLayoutID)
    \/ AllocateProbe(1, Ports)
    \/ AllocateMark(1)
    \/ SpawnStart(1)
    \/ SpawnAssignID(1)
    \/ SpawnSave(1)
    \/ SpawnRegister(1)
    \/ LayoutSnapshot(1)
    \/ \E id \in 1..MaxRaceN : th[1].pc = "layout_kill" /\ KillTerminal(1, id)
    \/ \E t \in Callers \ {1} : \E id \in 1..MaxRaceN : KillTerminal(t, id)
    \/ \E t \in Callers : KillStop(t)
    \/ \E t \in Callers : KillRelease(t)
    \/ \E t \in Callers : KillDbDelete(t)
    \/ LayoutPersist(1)
    \/ Backend
    \/ \E t \in Callers \ {1} : Ack(t)

SpecRace == InitRace /\ [][NextRace]_vars

\* Server.Run up to the end of restoreTerminals: a new process, whose store
\* holds the layout and the session records the last process left
InitRestore ==
    \E k \in 0..MaxStale, L \in LayoutInputs, c \in 0..MaxStoredCount :
        /\ terminals = [j \in 1..0 |-> [Port |-> 0, DBID |-> 0, Srv |-> 0, Title |-> NoTitle]]
        /\ nextID = 1
        /\ activeTabID = 0
        /\ used = {}
        /\ servers = << >>
        /\ bound = {}
        /\ dbRows = 1..k
        /\ dbSeq = k
        /\ dbLayout = [type |-> L, count |-> c]
        /\ th = [t \in Callers |-> IdleRec]
        /\ pre = NoSnap
        /\ faults = 0

NextRestore ==
    \/ RestoreTerminals(1)
    \/ RestoreApply(1)
    \/ th[1].pc = "layout_spawn" /\ SpawnTerminal(1, MaxLayoutID)
    \/ AllocateProbe(1, 1..MaxRestorePort)
    \/ AllocateMark(1)
    \/ SpawnStart(1)
    \/ SpawnAssignID(1)
    \/ SpawnSave(1)
    \/ SpawnRegister(1)
    \/ LayoutPersist(1)
    \/ Backend

SpecRestore == InitRestore /\ [][NextRestore]_vars

\* one client at a time that adds, renames and closes sessions
NextRename ==
    \/ Step(1, MaxID, Ports, 1..MaxID)
    \/ \E id \in 1..MaxID : \E title \in RenameTitles : RenameTerminal(1, id, title)
    \/ RenameWrite(1)
    \/ Backend
    \/ Ack(1)

SpecRename == Init /\ [][NextRename]_vars

\* one load of a saved session, on no, two or maxTerminals live sessions
LoadStarts == {0, 2, maxTerminals}

InitLoad == \E m \in LoadStarts : InitWith(m, MaxPort)

NextLoad ==
    \/ \E n \in 1..MaxSaved : \E stored \in {"", "vertical"} : LoadSession(1, n, stored)
    \/ th[1].pc = "load_spawn" /\ SpawnTerminal(1, maxTerminals + MaxSaved)
    \/ AllocateProbe(1, Ports)
    \/ AllocateMark(1)
    \/ SpawnStart(1)
    \/ SpawnAssignID(1)
    \/ SpawnSave(1)
    \/ SpawnRegister(1)
    \/ \E id \in 1..(2 + MaxSaved) :
           th[1].pc \in {"load_rollback", "load_kill"} /\ KillTerminal(1, id)
    \/ KillStop(1)
    \/ KillRelease(1)
    \/ KillDbDelete(1)
    \/ LoadPersist(1)
    \/ Backend

SpecLoad == InitLoad /\ [][NextLoad]_vars

\* concurrent layout requests; a request starts only with the layout type of
\* the requests that are running
SameLayoutRunning(l) == \A u \in Callers : th[u].pc # "idle" => th[u].layout = l

NextLayouts ==
    \/ \E t \in Callers : \E l \in LayoutTypes : SameLayoutRunning(l) /\ ApplyLayout(t, l)
    \/ \E t \in Callers : th[t].pc = "layout_spawn" /\ SpawnTerminal(t, MaxID)
    \/ \E t \in Callers : AllocateProbe(t, Ports)
    \/ \E t \in Callers : AllocateMark(t)
    \/ \E t \in Callers : SpawnStart(t)
    \/ \E t \in Callers : SpawnAssignID(t)
    \/ \E t \in Callers : SpawnSave(t)
    \/ \E t \in Callers : SpawnRegister(t)
    \/ \E t \in Callers : LayoutSnapshot(t)
    \/ \E t \in Callers : \E id \in 1..MaxID : th[t].pc = "layout_kill" /\ KillTerminal(t, id)
    \/ \E t \in Callers : KillStop(t)
    \/ \E t \in Callers : KillRelease(t)
    \/ \E t \in Callers : KillDbDelete(t)
    \/ \E t \in Callers : LayoutPersist(t)
    \/ Backend
    \/ \E t \in Callers : Ack(t)

\* one session is live when the requests begin
InitLayouts == InitWith(1, MaxPort)

SpecLayouts == InitLayouts /\ [][NextLayouts]_vars

\* handlers after startup, one session being live: the layout and load
\* requests of client 1 and the add and close requests of the other clients
NextMix ==
    \/ \E t \in Callers : Step(t, MaxConcID, Ports, 1..MaxConcID)
    \/ ApplyLayout(1, "horizontal")
    \/ LayoutPersist(1)
    \/ LoadSession(1, 1, "")
    \/ LoadPersist(1)
    \/ Backend
    \/ \E t \in Callers : Ack(t)

SpecMix == InitLayouts /\ [][NextMix]_vars

\* ---- tm.mu and the read-only operations, terminal.go:32 and 163-185 ----

\* a SpawnTerminal that unlocks tm.mu only when it returns
MuHeldThroughSpawn == {"spawn_probe", "spawn_mark", "spawn_start", "spawn_id",
                       "spawn_save", "spawn_reg"}

\* the positions between two steps of a SpawnTerminal or KillTerminal call
\* at which the caller holds tm.mu: none, since the Lock of terminal.go:62
\* is released at 65 or 68 before Allocate, that of 90 at 93 before
\* SaveActiveTerminal, that of 114 at 120, and that of 126 at 129 or 143
\* before Stop, Release and DeleteActiveTerminal
MuHeldAt == {}

\* some caller other than t holds tm.mu for writing
WriteLocked(t) == \E u \in Callers \ {t} : th[u].pc \in MuHeldAt

\* some caller holds tm.mu for reading
ReadLocked == \E u \in Callers : th[u].pc = "query"

\* tm.mu.Lock() of caller t succeeds
MuFree(t) == ~WriteLocked(t) /\ ~ReadLocked

\* the read-only operations
Queries == {"GetTerminals", "GetTerminal", "GetActiveTabID"}

\* terminal.go:164, 175, 182: tm.mu.RLock() of operation q
RLock(t, q, id) ==
    /\ NoneDone
    /\ th[t].pc = "idle"
    /\ ~WriteLocked(t)
    /\ pre' = PreAtCall(t)
    /\ Goto(t, [IdleRec EXCEPT !.pc = "query", !.outer = q, !.id = id])
    /\ UNCHANGED <<mgr, used, servers, bound, db, faults>>

\* terminal.go:167-171, 177-178, 184: the read, RUnlock and return
QueryReturn(t) ==
    /\ NoneDone
    /\ th[t].pc = "query"
    /\ Goto(t, Done(CASE th[t].outer = "GetTerminals" -> [th[t] EXCEPT !.todo = Live]
                       [] th[t].outer = "GetTerminal" ->
                              IF th[t].id \in Live
                              THEN [th[t] EXCEPT !.port = terminals[th[t].id].Port,
                                                 !.dbid = terminals[th[t].id].DBID,
                                                 !.title = terminals[th[t].id].Title]
                              ELSE [th[t] EXCEPT !.id = 0]
                       [] OTHER -> [th[t] EXCEPT !.target = activeTabID],
                  th[t].outer))
    /\ UNCHANGED <<mgr, used, servers, bound, db, pre, faults>>

\* concurrent SpawnTerminal, KillTerminal and read-only calls on a fresh
\* manager, every critical section waiting for tm.mu
NextLock ==
    \/ \E t \in Callers : MuFree(t) /\ SpawnTerminal(t, MaxConcID)
    \/ \E t \in Callers : AllocateProbe(t, Ports)
    \/ \E t \in Callers : AllocateMark(t)
    \/ \E t \in Callers : SpawnStart(t)
    \/ \E t \in Callers : MuFree(t) /\ SpawnAssignID(t)
    \/ \E t \in Callers : SpawnSave(t)
    \/ \E t \in Callers : MuFree(t) /\ SpawnRegister(t)
    \/ \E t \in Callers : \E id \in 1..MaxConcID : MuFree(t) /\ KillTerminal(t, id)
    \/ \E t \in Callers : KillStop(t)
    \/ \E t \in Callers : KillRelease(t)
    \/ \E t \in Callers : KillDbDelete(t)
    \/ \E t \in Callers : \E q \in Queries : \E id \in 1..MaxConcID : RLock(t, q, id)
    \/ \E t \in Callers : QueryReturn(t)
    \/ Backend
    \/ \E t \in Callers : Ack(t)

SpecLock == Init /\ [][NextLock]_vars

\* ---- scheduling ----

\* the step of caller t inside a call: the critical sections wait for tm.mu
Continue(t) ==
    \/ AllocateProbe(t, Ports)
    \/ AllocateMark(t)
    \/ SpawnStart(t)
    \/ MuFree(t) /\ SpawnAssignID(t)
    \/ SpawnSave(t)
    \/ MuFree(t) /\ SpawnRegister(t)
    \/ \E id \in 1..MaxID : MuFree(t) /\ th[t].pc = "shutdown_loop" /\ KillTerminal(t, id)
    \/ KillStop(t)
    \/ KillRelease(t)
    \/ KillDbDelete(t)
    \/ QueryReturn(t)

\* a Shutdown or KillTerminal of caller 1 on two live sessions, next to the
\* add, close and read requests of caller 2
NextFair ==
    \/ MuFree(1) /\ Shutdown(1)
    \/ MuFree(1) /\ th[1].pc = "idle" /\ KillTerminal(1, 2)
    \/ MuFree(2) /\ SpawnTerminal(2, MaxID)
    \/ MuFree(2) /\ th[2].pc = "idle" /\ KillTerminal(2, 1)
    \/ RLock(2, "GetTerminals", 0)
    \/ \E t \in Callers : Continue(t)
    \/ Backend
    \/ \E t \in Callers : Ack(t)

InitFair == InitWith(2, MaxPort)

\* The Go scheduler runs every goroutine that can run, sync.RWMutex hands
\* the lock to a waiting writer before any later reader, and a handler that
\* has its result returns: a step of a call that is possible again and
\* again is taken.  No request has to arrive and no backend has to end.
Fairness == \A t \in Callers : SF_vars(Continue(t)) /\ SF_vars(Ack(t))

SpecFair == InitFair /\ [][NextFair]_vars /\ Fairness

\* ---- the terminal proxy, server.go:189-243 ----

\* a port that no SpawnTerminal is ever given
FreePort == MaxPort + 1

\* terminal.go:76 and 101: the credential generated for a session is the one
\* its backend was started with; it is never the empty string, which is 0 here
Credential(id) == terminals[id].Srv

\* a lookup that takes the credential of any live session
ProxyMatchesAnyPort(port) == {Credential(id) : id \in Live}

\* server.go:203-210: the credentials the loop over GetTerminals can end
\* with, the order of the terminals being arbitrary
ProxyMatches(port) == {Credential(id) : id \in {i \in Live : terminals[i].Port = port}}

\* server.go:189-215: the lookup of the port under the read lock; no
\* credential is answered with not-found
ProxyLookup(t, port) ==
    /\ NoneDone
    /\ th[t].pc = "idle"
    /\ pre' = PreAtCall(t)
    /\ IF ProxyMatches(port) = {}
       THEN Goto(t, Done([IdleRec EXCEPT !.port = port], "proxy_not_found"))
       ELSE \E c \in ProxyMatches(port) :
               Goto(t, [IdleRec EXCEPT !.pc = "proxy_fwd", !.port = port, !.srv = c])
    /\ UNCHANGED <<mgr, used, servers, bound, db, faults>>

\* server.go:217-242: the request goes to localhost:<port> with the
\* credential in its Authorization header
ProxyForward(t) ==
    /\ NoneDone
    /\ th[t].pc = "proxy_fwd"
    /\ Goto(t, Done(th[t], "forwarded"))
    /\ UNCHANGED <<mgr, used, servers, bound, db, pre, faults>>

\* the add and close requests of client 1 and the proxy requests of client 2
NextProxy ==
    \/ Step(1, MaxConcID, Ports, 1..MaxConcID)
    \/ \E port \in Ports \cup {FreePort} : ProxyLookup(2, port)
    \/ ProxyForward(2)
    \/ Backend
    \/ \E t \in Callers : Ack(t)

SpecProxy == Init /\ [][NextProxy]_vars

\* ---- Server.Run, server.go:112-133 ----

\* an HTTP server that listens while the restore is still running
ServingFromStart == TRUE

\* the HTTP server has been started: Run is past restoreTerminals and the
\* go statement of server.go:119-124
Serving == th[1].pc = "serving"

\* server.go:113-124: restoreTerminals has returned; its error is only
\* logged and ListenAndServe starts in its goroutine
ListenAndServe(t) ==
    /\ th[t].pc = "done"
    /\ Goto(t, [th[t] EXCEPT !.pc = "serving"])
    /\ UNCHANGED <<mgr, used, servers, bound, db, pre, faults>>

\* a store that holds the horizontal layout and up to MaxStale stale records
InitRun == InitRestore /\ dbLayout = [type |-> "horizontal", count |-> 0]

\* Run as caller 1, the add, close and layout requests of the HTTP server
\* as caller 2
NextRun ==
    \/ RestoreTerminals(1)
    \/ RestoreApply(1)
    \/ th[1].pc = "layout_spawn" /\ SpawnTerminal(1, MaxID)
    \/ LayoutPersist(1)
    \/ ListenAndServe(1)
    \/ Serving /\ th[2].pc = "idle" /\ SpawnTerminal(2, MaxID)
    \/ \E id \in 1..MaxID : Serving /\ th[2].pc = "idle" /\ KillTerminal(2, id)
    \/ Serving /\ ApplyLayout(2, "horizontal")
    \/ th[2].pc = "layout_spawn" /\ SpawnTerminal(2, MaxID)
    \/ \E id \in 1..MaxID : th[2].pc = "layout_kill" /\ KillTerminal(2, id)
    \/ LayoutSnapshot(2)
    \/ LayoutPersist(2)
    \/ \E t \in Callers : AllocateProbe(t, Ports)
    \/ \E t \in Callers : AllocateMark(t)
    \/ \E t \in Callers : SpawnStart(t)
    \/ \E t \in Callers : SpawnAssignID(t)
    \/ \E t \in Callers : SpawnSave(t)
    \/ \E t \in Callers : SpawnRegister(t)
    \/ KillStop(2)
    \/ KillRelease(2)
    \/ KillDbDelete(2)
    \/ Backend
    \/ Ack(2)

SpecRun == InitRun /\ [][NextRun]_vars

\* concurrent callers of a PortPool on its own (no backend binds a port)
NextPool ==
    \E t \in Callers :
        \/ PoolAllocate(t)
        \/ PoolProbe(t)
        \/ PoolMark(t)
        \/ \E p \in Ports : PoolRelease(t, p) \/ IsAllocated(t, p)
        \/ Ack(t)

SpecPool == Init /\ [][NextPool]_vars

\* handlers.go:298 with terminal.go:193-197: total_terminals_spawned
TotalTerminalsSpawned == nextID - 1

\* ---- properties ----

TypeOK ==
    /\ Live \subseteq 1..(nextID - 1)
    /\ faults \in 0..MaxFaults
    /\ used \subseteq Nat
    /\ \A h \in DOMAIN servers : servers[h].st \in {"starting", "listening", "exited", "bind_failed"}

\* the handler of caller t has just been given the result res
Returned(t, res) == th[t].pc = "done" /\ th[t].ret = res

\* C1: under any interleaving of concurrent SpawnTerminal calls, with or
\* without concurrent KillTerminal calls, the number of sessions in the live
\* map never exceeds the capacity limit.
C1_LiveCountWithinCapacity == NumLive <= maxTerminals

\* C2: in every reachable state no two sessions in the live map have the
\* same port, when the OS hands out any port that has no listener.
C2_LivePortsDistinct ==
    \A a \in Live : \A b \in Live : a # b => terminals[a].Port # terminals[b].Port

\* C3 as stated: in every reachable state, SetActiveTabID calls included,
\* the active tab is zero or the ID of a live session.
C3_ActiveTabZeroOrLive == activeTabID = 0 \/ activeTabID \in Live

\* a SetActiveTabID call whose argument is neither zero nor a live ID
SetToDeadID ==
    \E t \in Callers : /\ th[t].pc = "idle"
                        /\ th'[t].pc = "done"
                        /\ th'[t].ret = "tab_set"
                        /\ th'[t].id \notin Live \cup {0}

\* C3 amended: every step of SpawnTerminal, KillTerminal, ApplyLayout and
\* Shutdown, and every SetActiveTabID call whose argument is zero or the ID
\* of a live session, takes a state in which the active tab is zero or live
\* to a state in which the active tab is zero or live.
C3_ActiveTabPreserved ==
    [][(C3_ActiveTabZeroOrLive /\ ~SetToDeadID) => C3_ActiveTabZeroOrLive']_vars

\* C3 witness: the active session was killed while another session was
\* live, and the active tab is now a live session.
C3_KilledActiveTabSwitched ==
    \E t \in Callers : /\ Returned(t, "killed")
                        /\ pre.owner = t
                        /\ pre.activeTabID = th[t].id
                        /\ activeTabID \in Live

\* caller t calls SpawnTerminal from its handler in this step
SpawnCalled(t) ==
    /\ th[t].pc = "idle"
    /\ th'[t].pc = "spawn_probe" \/ (th'[t].pc = "done" /\ th'[t].ret = "max_terminals")

\* C4: a SpawnTerminal call made when the live count equals the capacity
\* limit returns the capacity error and leaves the live map, the in-use set
\* of the pool, the next-ID counter, the active tab and the persisted
\* records as they were; the live count stays at the limit.
C4_AtCapacitySpawnRejected ==
    [][\A t \in Callers :
          (SpawnCalled(t) /\ NumLive = maxTerminals)
              => /\ th'[t].pc = "done"
                 /\ th'[t].ret = "max_terminals"
                 /\ UNCHANGED <<terminals, used, nextID, activeTabID, dbRows, dbSeq>>
                 /\ Cardinality(DOMAIN terminals') = maxTerminals]_vars

\* C4 witness: a caller got the capacity error with the live map full.
C4_RejectedAtCapacity ==
    \E t \in Callers : Returned(t, "max_terminals") /\ NumLive = maxTerminals

\* C5: Allocate never returns a port that is in the in-use set at the
\* moment it returns it (the port read from the probe listener is about to
\* be marked and returned at pc "pool_mark").
C5_AllocateReturnsUnusedPort ==
    \A t \in Callers : th[t].pc = "pool_mark" => th[t].port \notin used

\* C6: when every caller has its port from an Allocate call on a pool that
\* tracks no other port, the ports are pairwise distinct and each is
\* tracked as allocated.
C6_ConcurrentAllocateDistinct ==
    (/\ \A t \in Callers : Returned(t, "allocated")
     /\ used \subseteq {th[t].port : t \in Callers})
        => /\ \A t \in Callers : \A u \in Callers : t # u => th[t].port # th[u].port
           /\ \A t \in Callers : th[t].port \in used

\* C7: a SpawnTerminal that ran alone and failed in port allocation,
\* credential generation or backend start registered no session, consumed
\* no ID, left the active tab and the persisted records alone, and left the
\* in-use set of the pool as it was before the call.
C7_FailedSpawnLeavesNoTrace ==
    \A t \in Callers :
        (/\ th[t].pc = "done"
         /\ th[t].ret \in {"alloc_failed", "cred_failed", "start_failed"}
         /\ pre.owner = t)
            => /\ terminals = pre.terminals
               /\ nextID = pre.nextID
               /\ activeTabID = pre.activeTabID
               /\ dbRows = pre.dbRows
               /\ used = pre.used

\* C8: SpawnTerminal does not return a session, registered in the live map,
\* whose backend has failed to bind its port.
C8_NoSessionWithFailedBind ==
    \A t \in Callers :
        Returned(t, "spawned") => servers[th[t].srv].st # "bind_failed"

\* caller t calls KillTerminal from its handler in this step
KillCalled(t) ==
    /\ th[t].pc = "idle"
    /\ th'[t].pc = "kill_stop" \/ (th'[t].pc = "done" /\ th'[t].ret = "not_found")

\* C9: KillTerminal(id) with an id that is not in the live map returns the
\* not-found error; the live map, the active tab, the in-use set of the
\* pool, the persisted records and every backend are left as they were.
C9_KillUnknownIsNoOp ==
    [][\A t \in Callers :
          (KillCalled(t) /\ th'[t].id \notin Live)
              => /\ th'[t].pc = "done"
                 /\ th'[t].ret = "not_found"
                 /\ UNCHANGED <<terminals, nextID, activeTabID, used, dbRows, dbSeq,
                                servers, bound>>]_vars

\* C9 witness: a kill of an unknown id was refused while sessions were live
\* and one of them was the active tab.
C9_RefusedUnknownKill ==
    \E t \in Callers : /\ Returned(t, "not_found")
                        /\ th[t].id \notin Live
                        /\ activeTabID \in Live

\* what C10 says of a successful KillTerminal apart from the persisted record
KillFreed(t) ==
    /\ th[t].id \notin Live
    /\ pre.owner = t =>
          /\ th[t].port \notin used
          /\ terminals = [k \in DOMAIN pre.terminals \ {th[t].id} |-> pre.terminals[k]]
          /\ used = pre.used \ {th[t].port}

C11_StopWaitsForBackend ==
    \A t \in Callers :
        th[t].pc = "kill_release" => servers[th[t].srv].st # "listening"

\* the session id is live and its backend has terminated although nothing
\* stopped it
BackendDied(id) == id \in Live /\ servers[terminals[id].Srv].st = "exited"

\* work the manager still has to do without any new request: a call in
\* progress, a backend goroutine that has not run yet or was told to stop
ManagerBusy ==
    \/ \E t \in Callers : th[t].pc # "idle"
    \/ \E h \in DOMAIN servers :
          \/ servers[h].st = "starting"
          \/ servers[h].st = "listening" /\ servers[h].cancelled

\* C12: a live session whose backend terminated without a KillTerminal call
\* is removed by the manager: when the manager has nothing left to do, no
\* live session has a dead backend.
C12_DeadSessionIsRemoved ==
    (\E id \in Live : BackendDied(id)) => ManagerBusy

\* C13: a persisted record is deleted only by the DeleteActiveTerminal step
\* of a KillTerminal call for the session that holds it (so never by the
\* termination of a backend), no two calls delete the same record, and a
\* deleted record never comes back.
C13_RecordDeletedOnlyByKill ==
    [][/\ ~(dbRows \subseteq dbRows') =>
              \E t \in Callers : /\ th[t].pc = "kill_dbdel"
                                 /\ th[t].id \notin Live
                                 /\ th[t].dbid \in dbRows
                                 /\ dbRows' = dbRows \ {th[t].dbid}
       /\ \A t \in Callers : \A u \in Callers :
              (t # u /\ th[t].pc = "kill_dbdel" /\ th[u].pc = "kill_dbdel")
                  => th[t].dbid # th[u].dbid
       /\ \A k \in dbRows' \ dbRows : k > dbSeq]_vars

\* C13 witness: the backend of a live session has died, the manager is at
\* rest and the session's record is still in the store.
C13_CrashedSessionKeepsRecord ==
    \E id \in Live : /\ BackendDied(id)
                     /\ terminals[id].DBID \in dbRows
                     /\ \A t \in Callers : th[t].pc = "idle"

\* the ports held by the sessions that were live when the call of t began
PortsAtCall == {pre.terminals[k].Port : k \in DOMAIN pre.terminals}

\* what C14 says of a Shutdown that ran alone, apart from the active tab
ShutdownFreed(t) ==
    /\ pre.owner = t
    /\ Live = {}
    /\ used \cap PortsAtCall = {}

\* C14 as stated: after a Shutdown that ran alone no session is live, the
\* active tab is zero and no port of a session is left in the in-use set.
C14_ShutdownIsTotal ==
    \A t \in Callers :
        Returned(t, "shutdown_ok") => ShutdownFreed(t) /\ activeTabID = 0

\* C14 amended: after a Shutdown that ran alone no session is live and no
\* port of a session is left in the in-use set; the active tab is zero if it
\* was zero or the ID of a live session when Shutdown was called, and is
\* left as it was otherwise.
C14_ShutdownIsTotalForValidTab ==
    \A t \in Callers :
        Returned(t, "shutdown_ok") =>
            /\ ShutdownFreed(t)
            /\ activeTabID = IF pre.activeTabID \in DOMAIN pre.terminals
                             THEN 0 ELSE pre.activeTabID

\* C14 witness: Shutdown returned after it killed two sessions, one of them
\* the active tab, although a delete of a persisted record failed.
C14_ShutdownOfTwoWithFailure ==
    \E t \in Callers : /\ Returned(t, "shutdown_ok")
                       /\ Cardinality(DOMAIN pre.terminals) >= 2
                       /\ pre.activeTabID \in DOMAIN pre.terminals
                       /\ dbRows # {}
                       /\ Live = {}

\* the target session count of a layout: 2 for horizontal and vertical, 4
\* for grid; the code gives an unknown name 2 as well
TargetOf(L) == IF L = "grid" THEN 4 ELSE 2

\* the sessions of set S are as they were when the call began
SameAsAtCall(S) ==
    /\ S \subseteq Live \cap DOMAIN pre.terminals
    /\ \A k \in S : terminals[k] = pre.terminals[k]

\* C15: an ApplyLayout(L) that ran alone from n live sessions, with no
\* failure of the environment, returns success with exactly target(L)
\* sessions live: the n old ones and target(L)-n new ones if n < target(L),
\* target(L) of the old ones if n > target(L), the same ones if equal.  The
\* one spawn failure no fault accounts for is the OS having no port left.
C15_LayoutReachesTarget ==
    \A t \in Callers :
        (th[t].pc = "done" /\ th[t].layout # "none" /\ pre.owner = t /\ faults = 0) =>
            LET n == Cardinality(DOMAIN pre.terminals)
                target == TargetOf(th[t].layout)
            IN  \/ th[t].ret = "layout_spawn_failed" /\ Ports \subseteq bound
                \/ /\ th[t].ret = "layout_ok"
                   /\ NumLive = target
                   /\ n <= target => /\ SameAsAtCall(DOMAIN pre.terminals)
                                     /\ nextID = pre.nextID + (target - n)
                   /\ n >= target => /\ SameAsAtCall(Live)
                                     /\ nextID = pre.nextID

\* C15 witness: ApplyLayout("grid") on two sessions ended with four.
C15_GridFromTwo ==
    \E t \in Callers : /\ Returned(t, "layout_ok")
                       /\ th[t].layout = "grid"
                       /\ pre.owner = t
                       /\ Cardinality(DOMAIN pre.terminals) = 2
                       /\ NumLive = 4
                       /\ faults = 0

\* C16: if a SpawnTerminal or KillTerminal call that ApplyLayout makes
\* fails, ApplyLayout returns an error to its caller
C16_NestedFailureSurfaced ==
    \A t \in Callers :
        (th[t].pc = "done" /\ th[t].layout # "none" /\ th[t].nestedErr # "none")
            => th[t].ret \in {"layout_spawn_failed", "layout_db_failed"}

\* C17: a failing store call (SaveActiveTerminal, DeleteActiveTerminal,
\* UpdateActiveLayout) is never returned as an error: the step that makes the
\* call leaves the manager's memory and the port pool alone and, when it ends
\* the operation, ends it with the result of a successful call
C17_StoreFailureSwallowed ==
    [][\A t \in Callers :
          (/\ th[t].pc \in {"spawn_save", "kill_dbdel", "layout_db"}
           /\ th'[t] # th[t]
           /\ faults' = faults + 1)
              => /\ mgr' = mgr
                 /\ used' = used
                 /\ th'[t].pc = "done"
                        => th'[t].ret \in {"spawned", "killed", "layout_ok", "shutdown_ok"}]_vars

\* the restore of caller t has returned from ApplyLayout
Restored(t) == th[t].pc = "done" /\ pre.owner = t /\ th[t].ret # "restore_failed"

\* the state the claim describes after a restore whose stored type was L
RestoredTo(L) ==
    /\ Live = 1..TargetOf(L)
    /\ \A id \in Live : terminals[id].Port \in used \ pre.used
    /\ \A a \in Live : \A b \in Live : a # b => terminals[a].DBID # terminals[b].DBID
    /\ dbRows = {terminals[id].DBID : id \in Live}
    /\ dbRows \cap pre.dbRows = {}

Renames(t) == th[t].pc = "rename_write" /\ th'[t].pc = "done"

\* caller t removes session th'[t].id from the live map in this step
Removes(t) == th'[t].pc = "kill_stop" /\ th[t].pc # "kill_stop"

\* C19: renaming a live session changes only that session's title (its ID,
\* port, credential, the live map membership, the active tab and the next-ID
\* counter are unchanged), and killing one session afterwards leaves exactly
\* the other sessions live with their titles intact and the active tab equal
\* to the ID of one of them.
C19_RenameChangesTitleOnly ==
    [][\A t \in Callers :
          /\ Renames(t) =>
                /\ DOMAIN terminals' = Live
                /\ th[t].id \in Live
                /\ terminals'[th[t].id].Title = th[t].title
                /\ \A f \in {"Port", "DBID", "Srv"} : terminals'[th[t].id][f] = terminals[th[t].id][f]
                /\ \A k \in Live \ {th[t].id} : terminals'[k] = terminals[k]
                /\ <<nextID, activeTabID, used, servers>>' = <<nextID, activeTabID, used, servers>>
          /\ Removes(t) =>
                /\ DOMAIN terminals' = Live \ {th'[t].id}
                /\ \A k \in DOMAIN terminals' : terminals'[k] = terminals[k]
                /\ DOMAIN terminals' # {} => activeTabID' \in DOMAIN terminals'
                /\ nextID' = nextID]_vars

\* spawn three, rename the second, kill the first: exactly the renamed
\* second and the third are live
C19_RenamedSecondAndThirdLeft ==
    /\ Returned(1, "killed")
    /\ th[1].id = 1
    /\ nextID = 4
    /\ Live = {2, 3}
    /\ terminals[2].Title = [name |-> "Work", n |-> 0]
    /\ terminals[3].Title = TerminalTitle(3)
    /\ activeTabID \in {2, 3}

\* caller t is handed its session ID in this step
AssignsID(t) == th[t].pc = "spawn_id" /\ th'[t].pc = "spawn_save"

\* the IDs handed out so far that a session or a running spawn holds
HeldIDs == Live \cup {th[u].id : u \in {c \in Callers : th[c].pc \in {"spawn_save", "spawn_reg"}}}

\* C20: session IDs handed out by SpawnTerminal are strictly increasing in
\* the order of the registration counter and pairwise distinct, under any
\* interleaving of concurrent spawns and kills: every ID handed out is above
\* every ID handed out before it, whether the session that held that one is
\* live or was killed.
C20_IDsIncreaseNeverReused ==
    [][/\ nextID' >= nextID
       /\ \A id \in HeldIDs : id < nextID
       /\ \A t \in Callers :
              AssignsID(t) => /\ th'[t].id >= nextID
                              /\ th'[t].id < nextID'
                              /\ th'[t].id \notin HeldIDs]_vars

\* the session spawned after session 1 was killed has ID 2
C20_SecondIDAfterKillOfFirst ==
    \E t \in Callers : /\ Returned(t, "spawned")
                       /\ th[t].id = 2
                       /\ Live = {2}
                       /\ nextID = 3

\* caller t of the pool gets result res in this step
PoolReturns(t, res) == th[t].pc # "done" /\ th'[t].pc = "done" /\ th'[t].ret = res

\* C21: Release(p) removes exactly p from the in-use set and nothing else;
\* Release of a port that is not tracked leaves the set unchanged; a second
\* Release(p) would change nothing; IsAllocated(p) is true after Allocate
\* returned p and false after Release(p), and IsAllocated never changes the
\* set.
C21_ReleaseRemovesExactlyThePort ==
    [][\A t \in Callers :
          /\ PoolReturns(t, "released") =>
                /\ used' = used \ {th'[t].port}
                /\ th'[t].port \notin used => used' = used
                /\ Release(used', th'[t].port) = used'
                /\ th'[t].port \notin used'
          /\ PoolReturns(t, "allocated") => th'[t].port \in used'
          /\ PoolReturns(t, "true") => th'[t].port \in used /\ used' = used
          /\ PoolReturns(t, "false") => th'[t].port \notin used /\ used' = used]_vars

\* a Release that ran alone removed one of two tracked ports
C21_ReleasedOneOfTwo ==
    \E t \in Callers : /\ Returned(t, "released")
                       /\ pre.owner = t
                       /\ th[t].port \in pre.used
                       /\ used = pre.used \ {th[t].port}
                       /\ used # {}

\* the load request of caller t has ended
LoadEnded(t) == th[t].pc = "done" /\ th[t].ret \in {"load_ok", "load_spawn_failed", "load_db_failed"}

\* C22: loading a saved session of n terminals, n at most the capacity
\* limit, on any number of live sessions succeeds when nothing in the
\* environment fails, and afterwards the live map holds exactly the n newly
\* spawned sessions and none of the sessions that were live before.
C22_LoadReplacesTerminals ==
    \A t \in Callers :
        (LoadEnded(t) /\ pre.owner = t /\ faults = 0 /\ th[t].target <= maxTerminals)
            => /\ th[t].ret = "load_ok"
               /\ Live = th[t].fresh
               /\ NumLive = th[t].target
               /\ Live \cap DOMAIN pre.terminals = {}

\* the manager has started no teardown step for live session id: its
\* backend was not told to stop and its persisted record, if it has one, is
\* in the store
NotTornDown(id) ==
    /\ terminals[id].Srv \in DOMAIN servers
    /\ ~servers[terminals[id].Srv].cancelled
    /\ terminals[id].DBID > 0 => terminals[id].DBID \in dbRows

\* C23: whenever a session is in the live map, its backend has been
\* started, its port is held in the port pool, its persistence attempt has
\* completed, and the manager has not yet invoked backend stop, port release
\* or record deletion for it.
C23_LiveSessionIsWhole ==
    \A id \in Live : /\ NotTornDown(id)
                     /\ terminals[id].Port \in used
                     /\ \A t \in Callers : th[t].pc \in {"spawn_save", "kill_stop", "kill_release", "kill_dbdel"}
                                               => th[t].id # id

\* C24: Shutdown leaves the live set empty on return even when
\* SpawnTerminal calls are in flight: at the return of Shutdown no session
\* is live, whatever spawns passed their capacity check before Shutdown took
\* its snapshot.
C24_ShutdownLeavesNoSession ==
    \A t \in Callers : Returned(t, "shutdown_ok") => Live = {}

\* caller t is between the removal of session th[t].id from the map and
\* the end of its teardown
TearingDown(t) == th[t].pc \in {"kill_stop", "kill_release", "kill_dbdel"}

\* a KillTerminal call of caller t, from a handler or a loop, finds no
\* session in this step
KillLoses(t) ==
    /\ th'[t].pc # "kill_stop"
    /\ \/ th[t].pc = "idle" /\ th'[t].pc = "done" /\ th'[t].ret = "not_found"
       \/ /\ th[t].pc \in {"layout_kill", "shutdown_loop"}
          /\ th'[t].todo # th[t].todo

\* C25: of concurrent KillTerminal(id) calls on the same live id, from
\* handlers, Shutdown or ApplyLayout, exactly one finds the session: it
\* removes it from the map and is the only caller ever to stop its backend,
\* release its port and delete its record; every other call returns not
\* found and releases no port, stops no backend and deletes no record.
C25_OneKillWins ==
    [][/\ \A t \in Callers : \A u \in Callers :
              (t # u /\ TearingDown(t) /\ TearingDown(u)) => th[t].id # th[u].id
       /\ \A t \in Callers : TearingDown(t) => th[t].id \notin Live /\ th[t].id < nextID
       /\ \A t \in Callers :
              /\ Removes(t) => th'[t].id \in Live /\ th'[t].id \notin DOMAIN terminals'
              /\ KillLoses(t) => UNCHANGED <<terminals, nextID, activeTabID, used, servers,
                                             bound, dbRows, dbSeq>>]_vars

\* a handler's KillTerminal(id) has lost against another call that is
\* tearing session id down
C25_LoserWhileWinnerTearsDown ==
    \E t \in Callers : \E u \in Callers :
        /\ Returned(t, "not_found")
        /\ TearingDown(u)
        /\ th[u].id = th[t].id

\* C26: when concurrent ApplyLayout calls with the same layout type L, and
\* no other operation, have all returned, the last of them with success and
\* with no failure of the environment, the live count is exactly target(L).
C26_ConcurrentLayoutsReachTarget ==
    \A t \in Callers :
        (/\ Returned(t, "layout_ok")
         /\ \A u \in Callers \ {t} : th[u].pc = "idle"
         /\ faults = 0)
            => NumLive = TargetOf(th[t].layout)

\* C27: KillTerminal(id) on a live session changes the active tab only if id
\* was the active tab: then the new active tab is the ID of a session still
\* in the live map, or zero exactly when no session remains; if id was not
\* the active tab, the active tab is unchanged.
C27_KillSwitchesOnlyOwnTab ==
    [][\A t \in Callers :
          Removes(t) =>
              IF activeTabID = th'[t].id
              THEN /\ activeTabID' \in DOMAIN terminals' \cup {0}
                   /\ activeTabID' = 0 <=> DOMAIN terminals' = {}
              ELSE activeTabID' = activeTabID]_vars

\* a kill that ran alone removed a session that was not the active tab, and
\* the active tab is the live session it was
C27_KilledOtherThanActive ==
    \E t \in Callers : /\ Returned(t, "killed")
                       /\ pre.owner = t
                       /\ pre.activeTabID # th[t].id
                       /\ pre.activeTabID \in Live
                       /\ activeTabID = pre.activeTabID

\* caller t registers its new session th[t].id in this step
Registers(t) == th[t].pc = "spawn_reg" /\ th'[t].pc # "spawn_reg"

\* C28 as stated: a successful SpawnTerminal makes the new session the
\* active tab exactly when it is the only entry in the live map after
\* registration; when other sessions are already live, the active tab is
\* left unchanged, for any preceding sequence of manager operations
\* including SetActiveTabID.
C28_NewSessionActiveOnlyWhenFirst ==
    [][\A t \in Callers :
          Registers(t) => activeTabID' = IF Live = {} THEN th[t].id ELSE activeTabID]_vars

\* C28 amended: a successful SpawnTerminal makes the new session the active
\* tab exactly when it is the only entry in the live map after registration
\* or the active tab was zero; otherwise the active tab is left unchanged.
C28_NewSessionActiveWhenFirstOrNoTab ==
    [][\A t \in Callers :
          Registers(t) =>
              /\ DOMAIN terminals' = Live \cup {th[t].id}
              /\ activeTabID' = IF Live = {} \/ activeTabID = 0 THEN th[t].id ELSE activeTabID]_vars

\* a spawn that ran alone with sessions live and the active tab at zero made
\* its session the active tab
C28_SpawnedWithTabAtZero ==
    \E t \in Callers : /\ Returned(t, "spawned")
                       /\ pre.owner = t
                       /\ pre.activeTabID = 0
                       /\ DOMAIN pre.terminals # {}
                       /\ activeTabID = th[t].id

\* the storage keys of the live sessions that have one
LiveKeys == {terminals[id].DBID : id \in {k \in Live : terminals[k].DBID > 0}}

\* C29: a live session carries a storage key exactly when its save
\* succeeded during its spawn; if the save failed the spawn still succeeds
\* and the session is live with no key; KillTerminal deletes a record
\* exactly when the key is set, with that session's own key, and never
\* deletes another session's record.
C29_KeySetIffSavedAndOwnRecordDeleted ==
    [][/\ \A t \in Callers :
              Registers(t) =>
                  /\ th[t].id \in DOMAIN terminals'
                  /\ terminals'[th[t].id].DBID = (IF th[t].dbfail THEN 0 ELSE th[t].dbid)
                  /\ ~th[t].dbfail => th[t].dbid > 0 /\ th[t].dbid \in dbRows
                                          /\ th[t].dbid \notin LiveKeys
       /\ \A t \in Callers :
              (th[t].pc = "kill_release" /\ th'[t] # th[t])
                  => (th'[t].pc = "kill_dbdel" <=> th[t].dbid > 0)
       /\ \A t \in Callers : TearingDown(t) => th[t].dbid \notin LiveKeys
       /\ dbRows' # dbRows /\ ~(dbRows \subseteq dbRows')
              => \E t \in Callers : /\ th[t].pc = "kill_dbdel"
                                    /\ th[t].dbid > 0
                                    /\ dbRows' = dbRows \ {th[t].dbid}]_vars

\* a spawn whose save failed returned success and its session is live with
\* no key
C29_LiveWithoutKeyAfterFailedSave ==
    \E t \in Callers : /\ Returned(t, "spawned")
                       /\ th[t].dbfail
                       /\ th[t].id \in Live
                       /\ terminals[th[t].id].DBID = 0

\* what holds whenever an ApplyLayout call of caller t that ran alone has a
\* failed spawn or a written layout behind it, up to the comparison of the
\* live count with the starting count
LayoutWrittenAfterSpawns(t) ==
    /\ dbLayout # pre.dbLayout => th[t].nestedErr # "spawn" /\ NumLive >= th[t].target
    /\ th[t].nestedErr = "spawn" =>
           /\ Returned(t, "layout_spawn_failed")
           /\ dbLayout = pre.dbLayout
           /\ SameAsAtCall(DOMAIN pre.terminals)
           /\ NumLive < th[t].target

\* C30 as stated: ApplyLayout writes the persisted layout only after every
\* spawn it attempted succeeded; when a spawn fails, ApplyLayout returns
\* without touching the persisted layout and the sessions it already spawned
\* stay live, so the live count is strictly between the starting count and
\* the target.
C30_FailedLayoutStrictlyBetween ==
    \A t \in Callers :
        (pre.owner = t /\ th[t].layout # "none") =>
            /\ LayoutWrittenAfterSpawns(t)
            /\ th[t].nestedErr = "spawn" => NumLive > Cardinality(DOMAIN pre.terminals)

\* C30 amended: the same, with the live count at least the starting count
\* and below the target: equal to the starting count when the first spawn
\* failed, strictly between when an earlier spawn had succeeded.
C30_FailedLayoutKeepsSpawned ==
    \A t \in Callers :
        (pre.owner = t /\ th[t].layout # "none") =>
            /\ LayoutWrittenAfterSpawns(t)
            /\ th[t].nestedErr = "spawn" => NumLive = th[t].i
                                            /\ NumLive >= Cardinality(DOMAIN pre.terminals)

\* a grid layout failed at a later spawn: the stored layout is untouched and
\* the live count is strictly between the starting count and 4
C30_GridFailedPartway ==
    /\ Returned(1, "layout_spawn_failed")
    /\ th[1].layout = "grid"
    /\ dbLayout = pre.dbLayout
    /\ NumLive > Cardinality(DOMAIN pre.terminals)
    /\ NumLive < 4

\* no manager operation is in progress
Quiescent == \A t \in Callers : th[t].pc = "idle"

\* C31: in every quiescent state, after any sequence of SpawnTerminal,
\* KillTerminal, ApplyLayout and Shutdown calls including failed ones, the
\* in-use set of the port pool is exactly the set of the ports of the
\* sessions in the live map.
C31_PoolHoldsExactlyLivePorts ==
    Quiescent => used = {terminals[id].Port : id \in Live}

\* the keys of the records that a running spawn has saved and not yet
\* registered, or that a running kill has yet to delete
KeysInTransit ==
    {th[t].dbid : t \in {c \in Callers : /\ th[c].pc = "spawn_reg" \/ TearingDown(c)
                                         /\ th[c].dbid > 0}}

\* every live session has a key of its own, and the records of the store
\* are those of the live sessions and of the running spawns and kills, no
\* running spawn being about to register a session whose save failed; in
\* a quiescent state the records are exactly those of the live sessions
RecordsMatch ==
    /\ \A id \in Live : terminals[id].DBID > 0
    /\ \A a \in Live : \A b \in Live : a # b => terminals[a].DBID # terminals[b].DBID
    /\ dbRows = LiveKeys \cup KeysInTransit
    /\ LiveKeys \cap KeysInTransit = {}
    /\ \A t \in Callers : th[t].pc = "spawn_reg" => th[t].dbid > 0
    /\ Quiescent => dbRows = {terminals[id].DBID : id \in Live}

\* a call of the store fails in this step
PersistenceFails ==
    /\ faults' # faults
    /\ \E t \in Callers : /\ th'[t] # th[t]
                          /\ \/ th[t].pc \in {"spawn_save", "kill_dbdel", "layout_db", "load_db"}
                             \/ th'[t].ret = "load_db_failed"

InCall(t) ==
    th[t].pc \in {"spawn_probe", "spawn_mark", "spawn_start", "spawn_save",
                  "kill_stop", "kill_dbdel"}

PastRestore == th[1].pc = "serving"

\* C34: the startup restore runs to completion before the HTTP server takes
\* a request: while Run is not past the restore no handler operation has
\* begun, so every change of the manager, the pool and the store is a step
\* of the restore or of a backend; and Run starts the server whatever the
\* restore returned, leaving the sessions the restore created as they are.
C34_RestoreThenServe ==
    /\ [](th[1].pc = "done" => ENABLED ListenAndServe(1))
    /\ [][~PastRestore' => th'[2] = IdleRec]_vars
    /\ [][~PastRestore /\ PastRestore' => /\ th[1].pc = "done"
                                          /\ <<mgr, used, db>>' = <<mgr, used, db>>]_vars

\* the restore failed at its second spawn and the server went on to serve:
\* a handler added a session to the one the restore had created
C34_ServingAfterFailedRestore ==
    /\ PastRestore
    /\ th[1].ret = "layout_spawn_failed"
    /\ th[1].nestedErr = "spawn"
    /\ Returned(2, "spawned")
    /\ NumLive = 2

\* C35: a session load running alone in which a SpawnTerminal fails ends
\* with every session it had spawned killed and no earlier session killed
\* (each is in the live map with its backend not told to stop and its
\* record in the store): the live map is the one of before the load and the
\* persisted layout is unchanged.
C35_FailedLoadRollsBack ==
    \A t \in Callers :
        (Returned(t, "load_spawn_failed") /\ pre.owner = t) =>
            /\ terminals = pre.terminals
            /\ dbLayout = pre.dbLayout
            /\ th[t].fresh \cap Live = {}
            /\ th[t].old = DOMAIN pre.terminals
            /\ \A id \in Live : NotTornDown(id)

\* a load on two live sessions whose second spawn failed after its first
\* had succeeded
C35_RolledBackOneSession ==
    /\ Returned(1, "load_spawn_failed")
    /\ pre.owner = 1
    /\ th[1].fresh # {}
    /\ NumLive = 2
    /\ terminals = pre.terminals

\* C36: the proxy goes on to forward a request for a port only when, at its
\* lookup, a live session has that port, and the credential it attaches is
\* the non-empty credential of a live session with that port; a lookup of a
\* port that no live session has is answered with not-found; and a request
\* is forwarded only after such a lookup, to the port it looked up.
C36_ProxyForwardsLivePortsOnly ==
    [][\A t \in Callers :
          /\ th[t].pc = "idle" /\ th'[t].pc = "proxy_fwd" =>
                /\ th'[t].srv # 0
                /\ \E id \in Live : /\ terminals[id].Port = th'[t].port
                                    /\ Credential(id) = th'[t].srv
          /\ th[t].pc = "idle" /\ th'[t].ret = "proxy_not_found" =>
                \A id \in Live : terminals[id].Port # th'[t].port
          /\ (/\ th[t].pc = "idle"
              /\ th'[t].pc = "proxy_fwd" \/ th'[t].ret = "proxy_not_found"
              /\ \A id \in Live : terminals[id].Port # th'[t].port) =>
                th'[t].ret = "proxy_not_found"
          /\ th'[t].ret = "forwarded" /\ th[t].ret # "forwarded" =>
                /\ th[t].pc = "proxy_fwd"
                /\ th'[t].port = th[t].port
                /\ th'[t].srv = th[t].srv]_vars

\* a request for the port of the one live session was forwarded with that
\* session's credential, an earlier session having been killed
C36_ForwardedToLive ==
    /\ Returned(2, "forwarded")
    /\ nextID > 2
    /\ NumLive = 1
    /\ \E id \in Live : terminals[id].Port = th[2].port /\ Credential(id) = th[2].srv

\* caller t is inside a KillTerminal call of its handler or inside Shutdown
Killing(t) ==
    \/ th[t].outer = "shutdown_loop"
    \/ th[t].outer = "none" /\ th[t].pc \in {"kill_stop", "kill_release", "kill_dbdel"}

\* caller t's Shutdown calls KillTerminal in this step
ShutdownKills(t) == th[t].pc = "shutdown_loop" /\ th'[t].pc # "shutdown_loop"

\* C37: under fair scheduling every KillTerminal and every Shutdown that
\* has started returns, whatever the other callers do; and each KillTerminal
\* call of a Shutdown is for a session of its snapshot that it has not
\* called KillTerminal for before.
C37_KillAndShutdownReturn ==
    /\ \A t \in Callers : Killing(t) ~> th[t].pc = "done"
    /\ [][\A t \in Callers : ShutdownKills(t) =>
            /\ th'[t].id \in th[t].todo
            /\ th'[t].todo = th[t].todo \ {th'[t].id}]_vars
    /\ [][\A t \in Callers : th'[t].outer = "shutdown_loop" /\ th[t].outer # "shutdown_loop"
            => th'[t].todo = Live]_vars

\* a Shutdown that returned after a SpawnTerminal had registered a session
\* behind its snapshot
C37_ShutdownReturnedBesideSpawn ==
    /\ Returned(1, "shutdown_ok")
    /\ th[2].pc \in {"done", "idle"}
    /\ Live = {3}

\* C38: the mapping gives 2 for "horizontal", 2 for "vertical", 4 for
\* "grid" and 2 for any other name, each at most the capacity limit; and an
\* ApplyLayout that runs alone from a live count at or below its target
\* never has a SpawnTerminal of its loop rejected for capacity: each time
\* the loop calls SpawnTerminal the live count is below the limit.
C38_TargetsWithinCapacity ==
    /\ getTerminalCountForLayout("horizontal") = 2
    /\ getTerminalCountForLayout("vertical") = 2
    /\ getTerminalCountForLayout("grid") = 4
    /\ getTerminalCountForLayout("tabs") = 2
    /\ \A L \in LayoutInputs : getTerminalCountForLayout(L) <= maxTerminals
    /\ \A t \in Callers :
          (pre.owner = t /\ th[t].layout # "none") =>
              /\ th[t].target = getTerminalCountForLayout(th[t].layout)
              /\ th[t].pc = "layout_spawn" =>
                    /\ ~AtCapacity(NumLive)
                    /\ NumLive < th[t].target

\* ApplyLayout with a name outside the three layouts spawned one session
\* next to the one that was live
C38_OtherNameSpawnsToTwo ==
    /\ Returned(1, "layout_ok")
    /\ th[1].layout = "tabs"
    /\ pre.owner = 1
    /\ Cardinality(DOMAIN pre.terminals) = 1
    /\ NumLive = 2

\* the spawns that are past the start of their backend and have not been
\* given their ID yet
AwaitingID == {t \in Callers : th[t].pc = "spawn_id"}

\* caller t's SpawnTerminal ends in this step without having been given an
\* ID: rejected for capacity, or failed at the port allocation, the
\* credential or the backend start
SpawnEndsWithoutID(t) ==
    /\ th[t].pc \in {"idle", "spawn_probe", "spawn_mark", "spawn_start"}
    /\ th'[t].pc = "done"
    /\ th'[t].ret \in {"max_terminals", "alloc_failed", "cred_failed", "start_failed"}

\* C39: GetNextID() - 1 is the number of SpawnTerminal calls that have been
\* given an ID, on a manager that starts with the counter at 1: at each
\* moment it is the number of backends started so far less the spawns that
\* are between their backend start and their ID; the counter never goes
\* down, goes up by one in exactly the steps that hand out an ID, and stays
\* as it is in a step that rejects a spawn or fails it before its ID.
C39_CounterCountsAssignedIDs ==
    /\ [](/\ nextID >= 1
          /\ TotalTerminalsSpawned = Len(servers) - Cardinality(AwaitingID))
    /\ [][/\ nextID' \in {nextID, nextID + 1}
          /\ nextID' = nextID + 1 <=> \E t \in Callers : AssignsID(t)
          /\ \A t \in Callers : SpawnEndsWithoutID(t) => nextID' = nextID]_vars

\* one spawn has been given its ID while another failed at its backend
\* start: the reported total is 1
C39_OneCountedOneFailed ==
    \E t \in Callers : \E u \in Callers :
        /\ Returned(t, "start_failed")
        /\ th[u].pc = "spawn_save"
        /\ TotalTerminalsSpawned = 1
        /\ Len(servers) = 1

====
